---- MODULE Spec2Model ----
(***************************************************************************)
(* A model of the proofofthought reasoning front end:                      *)
(*   - the closed pydantic schema StructuredProgram and its to_dsl_dict    *)
(*     (z3dsl/reasoning/structured_program.py),                            *)
(*   - Z3ProgramGenerator.generate / generate_with_feedback                *)
(*     (z3dsl/reasoning/program_generator.py),                             *)
(*   - AuditedProofOfThought.query (examples/with_second_llm_...py),       *)
(*   - the Generation Loop and Cache behind ProofOfThought(max_attempts,   *)
(*     cache_dir) as constructed in examples/bench_strategyqa.py.          *)
(*                                                                         *)
(* Encoding of JSON values.  A JSON object is a function from key strings  *)
(* to values (a record), a JSON list is a sequence, a JSON string is a     *)
(* string.  A python Optional[T] field of a validated pydantic model is    *)
(* None (the empty sequence) or Some(v) (the one-element sequence).  Where *)
(* the schema admits a Union of a string and an object (KnowledgeEntry)    *)
(* a string s is written Str(s).  A text (an LLM reply, a prompt) is a     *)
(* sequence of tokens, each a record tagged by its field t.                *)
(***************************************************************************)
EXTENDS Integers, Sequences, FiniteSets, TLC

VARIABLES
    \* ---- schema validation (StructuredProgram) ----
    spc,        \* "raw" | "validated" | "rejected" | "emitted"
    raw,        \* the untyped document handed to the validator
    model,      \* the validated StructuredProgram (NoProgram before / on rejection)
    dsl         \* what to_dsl_dict emitted (NoProgram before)

schemaVars == <<spc, raw, model, dsl>>

VARIABLES
    \* ---- Z3ProgramGenerator ----
    client,     \* the llm_client: [responses_parse |-> BOOLEAN]
    gpc,        \* "idle" | "structured" | "chat" | "returned" | "raised"
    gcall,      \* the running call: its function, arguments and messages
    requests,   \* the LLM requests the running call has issued, in order
    replies,    \* what the client answered to each of them, in order
    gresult     \* the GenerationResult of the last returned call

genVars == <<client, gpc, gcall, requests, replies, gresult>>

VARIABLES
    \* ---- AuditedProofOfThought.query ----
    apc,            \* "start" | "gen1" | "audit1" | "gen2" | "audit2" | "verify" | "done"
    risk_threshold, \* self.risk_threshold
    aquestion,      \* the question of the running query
    program,        \* the local `program` of query
    generations,    \* how many generator calls query has made
    audits,         \* how many times _audit_program was called
    last_audit,     \* the most recent _audit_program call: its program and outcome
    verified,       \* every program handed to verifier.verify, in order
    aresult         \* what query returned: NotReturned, ReturnedNone, a result, Raised

auditVars ==
    <<apc, risk_threshold, aquestion, program, generations, audits, last_audit,
      verified, aresult>>

VARIABLES
    \* ---- ProofOfThought: the Generation Loop and its Cache ----
    lstate,         \* "IDLE" | "INIT" | "GENERATED" | "COMPILED" | "VERIFIED" | "FAILED"
    max_attempts,   \* the attempt ceiling
    lkey,           \* the cache key of the running call
    awaiting,       \* a generator call of the loop is in flight
    gen_calls,      \* generation calls issued by the running (or last) loop call
    solver_calls,   \* solver invocations of the running (or last) loop call
    last_error,     \* error text of the last failure
    last_raw,       \* raw generator text of the last attempt
    accepted,       \* the program of the last successful generation
    cache,          \* cache key -> stored result
    lresult,        \* what the last loop call returned
    queries,        \* loop calls started so far
    first_verified, \* history: cache key -> the result it first reached VERIFIED with
    prior           \* history: first_verified of lkey when the running call started

loopVars ==
    <<lstate, max_attempts, lkey, awaiting, gen_calls, solver_calls, last_error,
      last_raw, accepted, cache, lresult, queries, first_verified, prior>>

\* what the generator's own steps never touch
callerVars == <<schemaVars, auditVars, loopVars>>

vars == <<schemaVars, genVars, auditVars, loopVars>>

-----------------------------------------------------------------------------
(* Bounds of the model *)

\* a raw document carries at most MaxKeys top-level keys
MaxKeys == 2
\* an `actions` list has at most MaxActions entries
MaxActions == 2
\* a document the LLM emits carries at most MaxLlmKeys top-level keys
MaxLlmKeys == 1
\* the attempt ceiling of the Generation Loop ranges over 1..MaxCeiling
MaxCeiling == 3
\* one run makes at most MaxQueries calls of the Generation Loop
MaxQueries == 2

-----------------------------------------------------------------------------
(* JSON helpers *)

Empty == [k \in {} |-> k]
None == <<>>
Some(v) == <<v>>
Str(s) == [str |-> s]
IsStr(e) == DOMAIN e = {"str"}

\* value of key k of object o as an Optional
Opt(o, k) == IF k \in DOMAIN o THEN Some(o[k]) ELSE None

\* value of key k of object o, or the field's default
Dflt(o, k, d) == IF k \in DOMAIN o THEN o[k] ELSE d

Present(o, k) == k \in DOMAIN o

\* every element of list field k of o satisfies P (vacuous when k is absent)
AllOf(o, k, P(_)) == Present(o, k) => \A i \in 1..Len(o[k]) : P(o[k][i])

MapSeq(s, F(_)) == [i \in 1..Len(s) |-> F(s[i])]

\* pydantic with extra="forbid": required keys present, no key outside the class
KeysOK(o, required, allowed) ==
    /\ required \subseteq DOMAIN o
    /\ DOMAIN o \subseteq allowed

\* BaseModel.model_dump(exclude_none=True) of a flat model whose Optional
\* fields are opt
DumpModel(m, opt) ==
    LET keep == {k \in DOMAIN m : k \notin opt \/ m[k] # None}
    IN [k \in keep |-> IF k \in opt THEN m[k][1] ELSE m[k]]

-----------------------------------------------------------------------------
(* The schema classes: field sets, validation, normalisation *)

SortKeys == {"name", "type", "values", "description"}
ValidSort(o) == KeysOK(o, {"name", "type"}, SortKeys)
NormSort(o) ==
    [name |-> o.name, type |-> o.type,
     values |-> Opt(o, "values"), description |-> Opt(o, "description")]
DumpSort(m) == DumpModel(m, {"values", "description"})

FunctionKeys == {"name", "domain", "range", "description"}
ValidFunction(o) == KeysOK(o, {"name", "domain", "range"}, FunctionKeys)
NormFunction(o) ==
    [name |-> o.name, domain |-> o.domain, range |-> o.range,
     description |-> Opt(o, "description")]
DumpFunction(m) == DumpModel(m, {"description"})

VariableKeys == {"name", "sort", "description"}
ValidVariable(o) == KeysOK(o, {"name", "sort"}, VariableKeys)
NormVariable(o) ==
    [name |-> o.name, sort |-> o.sort, description |-> Opt(o, "description")]
DumpVariable(m) == DumpModel(m, {"description"})

KnowledgeKeys == {"assertion", "value", "description"}
ValidKnowledge(e) == IsStr(e) \/ KeysOK(e, {"assertion"}, KnowledgeKeys)
NormKnowledge(e) ==
    IF IsStr(e) THEN e
    ELSE [assertion |-> e.assertion, value |-> Dflt(e, "value", TRUE),
          description |-> Opt(e, "description")]
DumpKnowledge(m) == IF IsStr(m) THEN m ELSE DumpModel(m, {"description"})

QuantifiedKeys == {"name", "sort"}
ValidQuantified(o) == KeysOK(o, QuantifiedKeys, QuantifiedKeys)

ImplicationKeys == {"antecedent", "consequent"}
ValidImplication(o) == KeysOK(o, ImplicationKeys, ImplicationKeys)

RuleKeys == {"name", "forall", "implies", "constraint", "description"}
ValidRule(o) ==
    /\ KeysOK(o, {}, RuleKeys)
    /\ AllOf(o, "forall", ValidQuantified)
    /\ Present(o, "implies") => ValidImplication(o.implies)
NormRule(o) == [k \in RuleKeys |-> Opt(o, k)]
DumpRule(m) == DumpModel(m, RuleKeys)

VerificationKeys ==
    {"name", "constraint", "exists", "forall", "implies", "description"}
ValidVerification(o) ==
    /\ KeysOK(o, {}, VerificationKeys)
    /\ AllOf(o, "exists", ValidQuantified)
    /\ AllOf(o, "forall", ValidQuantified)
    /\ Present(o, "implies") => ValidImplication(o.implies)
NormVerification(o) == [k \in VerificationKeys |-> Opt(o, k)]
DumpVerification(m) == DumpModel(m, VerificationKeys)

ObjectiveKeys == {"type", "expression"}
ValidObjective(o) ==
    /\ KeysOK(o, ObjectiveKeys, ObjectiveKeys)
    /\ o.type \in {"maximize", "minimize"}

OptimizationKeys == {"variables", "constraints", "objectives", "description"}
ValidOptimization(o) ==
    /\ KeysOK(o, {}, OptimizationKeys)
    /\ AllOf(o, "variables", ValidVariable)
    /\ AllOf(o, "objectives", ValidObjective)
NormOptimization(o) ==
    [variables |-> MapSeq(Dflt(o, "variables", <<>>), NormVariable),
     constraints |-> Dflt(o, "constraints", <<>>),
     objectives |-> Dflt(o, "objectives", <<>>),
     description |-> Opt(o, "description")]
DumpOptimization(m) ==
    LET flat == DumpModel(m, {"description"})
    IN [flat EXCEPT !.variables = MapSeq(m.variables, DumpVariable)]

ConstantKeys == {"sort", "members", "description"}
ValidConstant(o) == KeysOK(o, {"sort", "members"}, ConstantKeys)
NormConstant(o) ==
    [sort |-> o.sort, members |-> o.members, description |-> Opt(o, "description")]
DumpConstant(m) == DumpModel(m, {"description"})

ProgramKeys ==
    {"sorts", "functions", "constants", "variables", "knowledge_base",
     "rules", "verifications", "optimization", "actions"}

\* StructuredProgram.model_validate: does pydantic accept the document
ValidProgram(d) ==
    /\ KeysOK(d, {}, ProgramKeys)
    /\ AllOf(d, "sorts", ValidSort)
    /\ AllOf(d, "functions", ValidFunction)
    /\ Present(d, "constants") =>
           \A n \in DOMAIN d.constants : ValidConstant(d.constants[n])
    /\ AllOf(d, "variables", ValidVariable)
    /\ AllOf(d, "knowledge_base", ValidKnowledge)
    /\ AllOf(d, "rules", ValidRule)
    /\ AllOf(d, "verifications", ValidVerification)
    /\ Present(d, "optimization") => ValidOptimization(d.optimization)

\* the StructuredProgram instance pydantic builds from an accepted document
StructuredProgram(d) ==
    [sorts |-> MapSeq(Dflt(d, "sorts", <<>>), NormSort),
     functions |-> MapSeq(Dflt(d, "functions", <<>>), NormFunction),
     constants |-> LET c == Dflt(d, "constants", Empty)
                   IN [n \in DOMAIN c |-> NormConstant(c[n])],
     variables |-> MapSeq(Dflt(d, "variables", <<>>), NormVariable),
     knowledge_base |-> MapSeq(Dflt(d, "knowledge_base", <<>>), NormKnowledge),
     rules |-> MapSeq(Dflt(d, "rules", <<>>), NormRule),
     verifications |-> MapSeq(Dflt(d, "verifications", <<>>), NormVerification),
     optimization |-> IF Present(d, "optimization")
                      THEN Some(NormOptimization(d.optimization)) ELSE None,
     actions |-> Dflt(d, "actions", <<>>)]

\* the `actions` entry of to_dsl_dict's result
\* the emitter without the default
DslActionsAsGiven(p) == p.actions

DslActions(p) == IF p.actions # <<>> THEN p.actions ELSE <<"verify_conditions">>

\* StructuredProgram.to_dsl_dict
ToDslDict(p) ==
    LET dumped ==
            [sorts |-> MapSeq(p.sorts, DumpSort),
             functions |-> MapSeq(p.functions, DumpFunction),
             constants |-> [n \in DOMAIN p.constants |-> DumpConstant(p.constants[n])],
             variables |-> MapSeq(p.variables, DumpVariable),
             knowledge_base |-> MapSeq(p.knowledge_base, DumpKnowledge),
             rules |-> MapSeq(p.rules, DumpRule),
             verifications |-> MapSeq(p.verifications, DumpVerification),
             actions |-> DslActions(p)]
    IN IF p.optimization # None
       THEN dumped @@ ("optimization" :> DumpOptimization(p.optimization[1]))
       ELSE dumped

\* StructuredProgram.model_dump(exclude_none=True), the object whose JSON text
\* model_dump_json returns
ModelDump(p) ==
    LET dumped ==
            [sorts |-> MapSeq(p.sorts, DumpSort),
             functions |-> MapSeq(p.functions, DumpFunction),
             constants |-> [n \in DOMAIN p.constants |-> DumpConstant(p.constants[n])],
             variables |-> MapSeq(p.variables, DumpVariable),
             knowledge_base |-> MapSeq(p.knowledge_base, DumpKnowledge),
             rules |-> MapSeq(p.rules, DumpRule),
             verifications |-> MapSeq(p.verifications, DumpVerification),
             actions |-> p.actions]
    IN IF p.optimization # None
       THEN dumped @@ ("optimization" :> DumpOptimization(p.optimization[1]))
       ELSE dumped

-----------------------------------------------------------------------------
(* The documents the model draws its inputs from *)

SortA == [name |-> "A", type |-> "DeclareSort"]
SortB == [name |-> "B", type |-> "EnumSort", values |-> <<"b1", "b2">>]
SortsMenu ==
    {<<>>, <<SortA>>, <<SortA, SortB>>, <<SortA, SortA>>,
     <<[name |-> "A", type |-> "DeclareSort", colour |-> "red"]>>,
     <<[name |-> "A"]>>}

FuncF == [name |-> "f", domain |-> <<"A">>, range |-> "BoolSort"]
FunctionsMenu ==
    {<<>>, <<FuncF>>, <<FuncF, FuncF>>,
     <<[name |-> "g", domain |-> <<"A", "A">>, range |-> "IntSort",
        description |-> "distance"]>>,
     <<[name |-> "f", domain |-> <<"A">>, range |-> "BoolSort", arity |-> "1"]>>}

ConstantsMenu ==
    {Empty,
     [people |-> [sort |-> "A", members |-> <<"alice", "bob">>]],
     [people |-> [sort |-> "A", members |-> <<"alice">>],
      places |-> [sort |-> "A", members |-> <<"alice">>, description |-> "towns"]],
     [people |-> [sort |-> "A", members |-> <<"alice">>, frozen |-> "yes"]],
     [people |-> [sort |-> "A"]]}

VarX == [name |-> "x", sort |-> "A"]
VariablesMenu ==
    {<<>>, <<VarX>>, <<VarX, VarX>>,
     <<VarX, [name |-> "y", sort |-> "IntSort", description |-> "count"]>>,
     <<[name |-> "x", sort |-> "A", scope |-> "global"]>>}

KnowledgeMenu ==
    {<<>>, <<Str("f(alice)")>>,
     <<Str("f(alice)"), [assertion |-> "f(bob)", value |-> FALSE]>>,
     <<[assertion |-> "f(bob)"]>>,
     <<[assertion |-> "f(bob)", weight |-> "2"]>>}

QuantX == <<[name |-> "x", sort |-> "A"]>>
ImplPQ == [antecedent |-> "f(x)", consequent |-> "g(x, x) > 0"]
RulesMenu ==
    {<<>>,
     <<[implies |-> ImplPQ, forall |-> QuantX]>>,
     <<[constraint |-> "f(alice)", name |-> "r1"]>>,
     <<[implies |-> ImplPQ, constraint |-> "f(alice)"]>>,
     <<[name |-> "r0"]>>,
     <<[constraint |-> "f(alice)", priority |-> "1"]>>,
     <<[implies |-> [antecedent |-> "f(x)", consequent |-> "f(x)", weight |-> "1"]]>>}

VerificationsMenu ==
    {<<>>,
     <<[name |-> "v1", constraint |-> "f(alice)"]>>,
     <<[name |-> "v2", forall |-> QuantX, implies |-> ImplPQ]>>,
     <<[name |-> "v3", exists |-> QuantX, constraint |-> "f(x)"]>>,
     <<[name |-> "v4", exists |-> QuantX, forall |-> QuantX, constraint |-> "f(x)"]>>,
     <<[name |-> "v5", constraint |-> "f(alice)", implies |-> ImplPQ]>>,
     <<[name |-> "v6"]>>,
     <<[constraint |-> "f(alice)", expect |-> "true"]>>,
     <<[exists |-> <<[name |-> "x", sort |-> "A", kind |-> "k"]>>,
        constraint |-> "f(x)"]>>}

OptimizationMenu ==
    {Empty,
     [variables |-> <<[name |-> "n", sort |-> "IntSort"]>>,
      constraints |-> <<"n < 10">>,
      objectives |-> <<[type |-> "maximize", expression |-> "n"]>>],
     [objectives |-> <<[type |-> "largest", expression |-> "n"]>>],
     [constraints |-> <<"n < 10">>, solver |-> "z3"]}

ActionNames == {"verify_conditions", "optimize", "simplify"}

RECURSIVE SeqsUpTo(_, _)
SeqsUpTo(S, n) ==
    IF n = 0 THEN {<<>>}
    ELSE LET shorter == SeqsUpTo(S, n - 1)
         IN shorter \cup {Append(s, a) : s \in {t \in shorter : Len(t) = n - 1}, a \in S}

ActionsMenu == SeqsUpTo(ActionNames, MaxActions)

\* a key the schema does not know
UnknownKey == "metadata"
UnknownMenu == {"v1"}

AllKeys == ProgramKeys \cup {UnknownKey}

\* the sets of at most n top-level keys
KeySets(n) == {K \in SUBSET AllKeys : Cardinality(K) <= n}

\* the documents with exactly the keys K, each value drawn from the key's menu
RECURSIVE DocsOver(_)
DocsOver(K) ==
    IF K = {} THEN {Empty}
    ELSE LET k == CHOOSE x \in K : TRUE
             rest == DocsOver(K \ {k})
             With(M) == {(k :> v) @@ d : v \in M, d \in rest}
         IN CASE k = "sorts" -> With(SortsMenu)
              [] k = "functions" -> With(FunctionsMenu)
              [] k = "constants" -> With(ConstantsMenu)
              [] k = "variables" -> With(VariablesMenu)
              [] k = "knowledge_base" -> With(KnowledgeMenu)
              [] k = "rules" -> With(RulesMenu)
              [] k = "verifications" -> With(VerificationsMenu)
              [] k = "optimization" -> With(OptimizationMenu)
              [] k = "actions" -> With(ActionsMenu)
              [] k = UnknownKey -> With(UnknownMenu)

NoProgram == Empty

-----------------------------------------------------------------------------
(* Schema validation as a state machine: a document is validated, and an   *)
(* accepted one is emitted in the interpreter's format.                    *)

SchemaIdle ==
    /\ spc = "raw"
    /\ raw = Empty
    /\ model = NoProgram
    /\ dsl = NoProgram

InitSchema ==
    /\ spc = "raw"
    /\ \E K \in KeySets(MaxKeys) : raw \in DocsOver(K)
    /\ model = NoProgram
    /\ dsl = NoProgram

\* StructuredProgram.model_validate(raw)
ModelValidate ==
    /\ spc = "raw"
    /\ IF ValidProgram(raw)
       THEN /\ spc' = "validated"
            /\ model' = StructuredProgram(raw)
       ELSE /\ spc' = "rejected"
            /\ model' = NoProgram
    /\ UNCHANGED <<raw, dsl, genVars, auditVars, loopVars>>

\* model.to_dsl_dict()
EmitDsl ==
    /\ spc = "validated"
    /\ spc' = "emitted"
    /\ dsl' = ToDslDict(model)
    /\ UNCHANGED <<raw, model, genVars, auditVars, loopVars>>

NextSchema == ModelValidate \/ EmitDsl

-----------------------------------------------------------------------------
(* Texts *)

Lit(s) == [t |-> "lit", s |-> s]        \* prose: no brace, no fence
FenceOpen == [t |-> "fence_open"]       \* ```json
FenceClose == [t |-> "fence_close"]     \* ```
Obj(d) == [t |-> "obj", doc |-> d]      \* the JSON text of object d
Broken == [t |-> "broken"]              \* {...} that is not valid JSON

IsBrace(tok) == tok.t \in {"obj", "broken"}

\* json.loads of a stretch of text: Some(object) or None on JSONDecodeError
JsonLoads(text) ==
    IF Len(text) = 1 /\ text[1].t = "obj" THEN Some(text[1].doc) ELSE None

\* text contains piece as a contiguous stretch
Contains(text, piece) ==
    \E i \in 0..(Len(text) - Len(piece)) : SubSeq(text, i + 1, i + Len(piece)) = piece

\* Z3ProgramGenerator._extract_json: an Optional object
ExtractJson(text) ==
    LET n == Len(text)
        \* r"```json\s*(\{[\s\S]*?\})\s*```": leftmost opening, then the
        \* nearest closing brace that a fence follows
        ends(i) == {j \in (i + 1)..(n - 1) :
                       IsBrace(text[j]) /\ text[j + 1] = FenceClose}
        opens == {i \in 1..(n - 2) :
                     /\ text[i] = FenceOpen
                     /\ IsBrace(text[i + 1])
                     /\ ends(i) # {}}
        \* r"\{[\s\S]*\}": first opening brace to last closing brace
        braces == {i \in 1..n : IsBrace(text[i])}
        Min(S) == CHOOSE x \in S : \A y \in S : x <= y
        Max(S) == CHOOSE x \in S : \A y \in S : x >= y
    IN IF opens # {}
       THEN LET i == Min(opens) IN JsonLoads(SubSeq(text, i + 1, Min(ends(i))))
       ELSE IF braces # {}
            THEN JsonLoads(SubSeq(text, Min(braces), Max(braces)))
            ELSE None

-----------------------------------------------------------------------------
(* Z3ProgramGenerator *)

STRUCTURED_SYSTEM_PROMPT == <<Lit("You are an assistant that produces Z3 DSL programs.")>>

\* prompt_template.build_prompt: the DSL instructions followed by the question
BuildPrompt(question) ==
    <<Lit("DSL_INSTRUCTIONS"), Lit("Question: "), Lit(question)>>

Message(role, content) == [role |-> role, content |-> content]

InitialMessages(prompt) ==
    <<Message("system", STRUCTURED_SYSTEM_PROMPT), Message("user", prompt)>>

\* a feedback history that forgets the previous attempt
FeedbackMessagesNoAssistant(prompt, previous_response, feedback_message) ==
    <<Message("system", STRUCTURED_SYSTEM_PROMPT),
      Message("user", prompt),
      Message("user", feedback_message)>>

FeedbackMessages(prompt, previous_response, feedback_message) ==
    <<Message("system", STRUCTURED_SYSTEM_PROMPT),
      Message("user", prompt),
      Message("assistant", previous_response),
      Message("user", feedback_message)>>

\* the feedback_message f-string of generate_with_feedback
FeedbackText(error_trace) ==
    <<Lit("There was an error processing your response:")>>
        \o error_trace \o <<Lit("Please fix the JSON accordingly.")>>

GenerationResult(json_program, raw_response, success, error) ==
    [json_program |-> json_program, raw_response |-> raw_response,
     success |-> success, error |-> error]

NoResult == Empty
NoCall == Empty

\* what llm_client.responses.parse(text_format=StructuredProgram) yields when
\* the model emits document d: the validated instance, or the validation error
ResponsesParse(d) ==
    IF ValidProgram(d)
    THEN [kind |-> "parsed", program |-> StructuredProgram(d)]
    ELSE [kind |-> "raise"]

\* the documents the LLM may emit as structured output
LlmDocs == UNION {DocsOver(K) : K \in KeySets(MaxLlmKeys)}

\* the documents the LLM may write into a chat reply
ChatDocs == UNION {DocsOver(K) : K \in {{}} \cup {{k} : k \in AllKeys}}

StructuredOutcomes ==
    {[kind |-> "raise"], [kind |-> "no_parsed"]} \cup {ResponsesParse(d) : d \in LlmDocs}

\* a structured call whose parsed program is thrown away
StructuredResultDiscarded(out) == None

\* Z3ProgramGenerator._call_structured_api: None, or Some of the pair
\* (json_program, json_text)
StructuredResult(out) ==
    IF out.kind = "parsed"
    THEN Some([json_program |-> ToDslDict(out.program),
               json_text |-> <<Obj(ModelDump(out.program))>>])
    ELSE None

\* the assistant contents a chat completion may carry around document d
ChatTextsOf(d) ==
    {<<Obj(d)>>,
     <<Lit("Here is the program:"), FenceOpen, Obj(d), FenceClose>>,
     <<FenceOpen, Broken, FenceClose, Obj(d)>>}

ChatTexts ==
    UNION {ChatTextsOf(d) : d \in ChatDocs}
        \cup {<<>>, <<Lit("I cannot answer that.")>>, <<Broken>>,
              <<Obj([actions |-> <<"optimize">>]), Lit("or"), Obj(Empty)>>}

ChatOutcomes ==
    {[kind |-> "raise", exc |-> <<Lit("RateLimitError")>>], [kind |-> "null"]}
        \cup {[kind |-> "text", content |-> c] : c \in ChatTexts}

ExtractFailure(fn) ==
    IF fn = "generate"
    THEN <<Lit("Failed to extract valid JSON from response")>>
    ELSE <<Lit("Failed to extract valid JSON from feedback response")>>

\* a result that takes any extracted JSON object for a program, the empty
\* one included
ChatResultAnyJson(fn, content) ==
    LET json_program == ExtractJson(content)
    IN IF json_program # None
       THEN GenerationResult(json_program, content, TRUE, None)
       ELSE GenerationResult(None, content, FALSE, Some(ExtractFailure(fn)))

\* the result generate / generate_with_feedback build from the chat content
ChatResult(fn, content) ==
    LET json_program == ExtractJson(content)
    IN IF json_program # None /\ json_program[1] # Empty
       THEN GenerationResult(json_program, content, TRUE, None)
       ELSE GenerationResult(None, content, FALSE, Some(ExtractFailure(fn)))

\* what the caller of responses.parse sees of its outcome: an exception, a
\* response without output_parsed, or a response with it
StructuredReply(out) == [api |-> "responses.parse", kind |-> out.kind]

\* what the caller of chat.completions.create sees of its outcome: an
\* exception, or the message content, a text or None
ChatReply(out) ==
    IF out.kind = "text"
    THEN [api |-> "chat.completions.create", kind |-> "text", content |-> out.content]
    ELSE [api |-> "chat.completions.create", kind |-> out.kind]

GenIdle ==
    /\ gpc = "idle"
    /\ gcall = NoCall
    /\ requests = <<>>
    /\ replies = <<>>
    /\ gresult = NoResult

\* the generator between two calls of a caller that keeps nothing of it
GeneratorAtRest ==
    /\ gpc' = "idle"
    /\ gcall' = NoCall
    /\ requests' = <<>>
    /\ replies' = <<>>
    /\ gresult' = NoResult

\* generate(question), up to its first LLM request
StartGenerate(question) ==
    /\ gcall' = [fn |-> "generate", question |-> question,
                 messages |-> InitialMessages(BuildPrompt(question))]
    /\ requests' = <<>>
    /\ replies' = <<>>
    /\ gresult' = NoResult
    /\ gpc' = "structured"

\* generate_with_feedback(question, error_trace, previous_response), up to
\* its first LLM request
StartFeedback(question, error_trace, previous_response) ==
    /\ gcall' = [fn |-> "generate_with_feedback", question |-> question,
                 error_trace |-> error_trace,
                 previous_response |-> previous_response,
                 messages |-> FeedbackMessages(BuildPrompt(question),
                                               previous_response,
                                               FeedbackText(error_trace))]
    /\ requests' = <<>>
    /\ replies' = <<>>
    /\ gresult' = NoResult
    /\ gpc' = "structured"

\* _call_structured_api and the branch on its result, the LLM's structured
\* reply drawn from outcomes
StructuredStep(outcomes) ==
    /\ gpc = "structured"
    /\ IF ~client.responses_parse
       THEN /\ gpc' = "chat"
            /\ UNCHANGED <<requests, replies, gresult>>
       ELSE /\ requests' = Append(requests,
                               [api |-> "responses.parse",
                                messages |-> gcall.messages,
                                text_format |-> "StructuredProgram"])
            /\ \E out \in outcomes :
                 LET structured_result == StructuredResult(out)
                 IN /\ replies' = Append(replies, StructuredReply(out))
                    /\ IF structured_result # None
                       THEN /\ gresult' = GenerationResult(
                                              Some(structured_result[1].json_program),
                                              structured_result[1].json_text,
                                              TRUE, None)
                            /\ gpc' = "returned"
                       ELSE /\ gpc' = "chat"
                            /\ UNCHANGED gresult
    /\ UNCHANGED <<client, gcall, callerVars>>

\* _call_chat_completion, _extract_json and the result built from them, the
\* LLM's chat reply drawn from outcomes
ChatStep(outcomes) ==
    /\ gpc = "chat"
    /\ requests' = Append(requests,
                          [api |-> "chat.completions.create",
                           messages |-> gcall.messages])
    /\ \E out \in outcomes :
         /\ replies' = Append(replies, ChatReply(out))
         /\ CASE out.kind = "raise" ->
                    /\ gresult' = GenerationResult(None, <<>>, FALSE, Some(out.exc))
                    /\ gpc' = "returned"
              [] out.kind = "null" ->
                    \* re.search on None raises TypeError outside the try block
                    /\ gresult' = NoResult
                    /\ gpc' = "raised"
              [] out.kind = "text" ->
                    /\ gresult' = ChatResult(gcall.fn, out.content)
                    /\ gpc' = "returned"
    /\ UNCHANGED <<client, gcall, callerVars>>

-----------------------------------------------------------------------------
(* The components at rest: the state of each right after construction *)

DefaultRiskThreshold == 5
MainRiskThreshold == 6
MinRiskScore == 1
MaxRiskScore == 10
DefaultRiskScore == 10

NoAudit == Empty
NotReturned == [kind |-> "running"]
ReturnedNone == [kind |-> "none"]
Raised == [kind |-> "raised"]

AuditIdle ==
    /\ apc = "start"
    /\ risk_threshold = DefaultRiskThreshold
    /\ aquestion = ""
    /\ program = NoProgram
    /\ generations = 0
    /\ audits = 0
    /\ last_audit = NoAudit
    /\ verified = <<>>
    /\ aresult = NotReturned

BenchMaxAttempts == 3

NoKey == <<"", "">>
NoText == <<>>

LoopIdle ==
    /\ lstate = "IDLE"
    /\ max_attempts = BenchMaxAttempts
    /\ lkey = NoKey
    /\ awaiting = FALSE
    /\ gen_calls = 0
    /\ solver_calls = 0
    /\ last_error = NoText
    /\ last_raw = NoText
    /\ accepted = NoProgram
    /\ cache = Empty
    /\ lresult = NotReturned
    /\ queries = 0
    /\ first_verified = Empty
    /\ prior = None

-----------------------------------------------------------------------------
(* AuditedProofOfThought *)

NoJustification == <<Lit("No justification provided.")>>
Malformed == <<Lit("Auditor LLM response was malformed.")>>

\* the (is_safe, justification) pair _audit_program returns, with the report
\* it was computed from
Verdict(path, is_safe, justification, report) ==
    [kind |-> "verdict", path |-> path, is_safe |-> is_safe,
     justification |-> justification, report |-> report]

\* _audit_program, structured path: the verdict on a parsed AuditReport
StructuredVerdict(threshold, audit_report) ==
    Verdict("structured",
            audit_report.is_safe /\ audit_report.risk_score < threshold,
            audit_report.justification,
            audit_report)

\* _audit_program, fallback path: the verdict on the chat reply's content
FallbackVerdict(threshold, content) ==
    LET loaded == JsonLoads(content)
    IN IF loaded = None
       THEN Verdict("fallback", FALSE, Malformed, Empty)
       ELSE LET audit_result == loaded[1]
                risk_score == Dflt(audit_result, "risk_score", DefaultRiskScore)
            IN Verdict("fallback",
                       risk_score < threshold,
                       Dflt(audit_result, "justification", NoJustification),
                       audit_result)

\* _audit_program on the auditor's two possible replies: a verdict, or the
\* exception that leaves it
AuditProgram(threshold, has_parse, structured, chat) ==
    IF has_parse /\ structured.kind = "report"
    THEN StructuredVerdict(threshold, structured.report)
    ELSE CASE chat.kind = "raise" -> [kind |-> "raise"]
           [] chat.kind = "null" -> [kind |-> "raise"]
           [] chat.kind = "text" -> FallbackVerdict(threshold, chat.content)

\* a correction request that leaves the auditor's reason out
AuditErrorTraceBare(justification) ==
    <<Lit("The initial program was rejected by a logical audit. Reason: "),
      Lit(". Please generate a new, more neutral program based on objective, verifiable metrics.")>>

\* the error_trace f-string query passes to generate_with_feedback
AuditErrorTrace(justification) ==
    <<Lit("The initial program was rejected by a logical audit. Reason: ")>>
        \o justification
        \o <<Lit(". Please generate a new, more neutral program based on objective, verifiable metrics.")>>

\* a query that verifies the corrected program whatever its audit said
AfterAuditUnchecked(attempt, is_safe) ==
    IF is_safe THEN "verify"
    ELSE IF attempt = 1 THEN "gen2" ELSE "verify"

\* where query goes after an audit: attempt is 1 or 2
AfterAudit(attempt, is_safe) ==
    IF is_safe THEN "verify"
    ELSE IF attempt = 1 THEN "gen2" ELSE "done"

\* ---- what the two LLM roles may reply in the audited workflow ----

ProgNeutral ==
    [knowledge_base |-> <<Str("cost(boeing737) < receipts(film)")>>,
     verifications |-> <<[name |-> "covered", constraint |-> "cost(boeing737) < receipts(film)"]>>]

ProgLoaded ==
    [knowledge_base |-> <<[assertion |-> "chaotic(city)", value |-> TRUE]>>]

ProgrammerDocs == {ProgNeutral, ProgLoaded}

ProgrammerStructuredOutcomes ==
    {[kind |-> "raise"]} \cup {ResponsesParse(d) : d \in ProgrammerDocs}

ProgrammerChatOutcomes ==
    {[kind |-> "raise", exc |-> <<Lit("RateLimitError")>>], [kind |-> "null"],
     [kind |-> "text", content |-> <<Lit("I cannot answer that.")>>]}
        \cup {[kind |-> "text", content |-> <<FenceOpen, Obj(d), FenceClose>>] :
                 d \in ProgrammerDocs}

Justifications == {<<Lit("The name chaotic is emotionally loaded.")>>}

AuditReports ==
    [risk_score : MinRiskScore..MaxRiskScore, is_safe : BOOLEAN,
     justification : Justifications]

AuditorStructuredOutcomes ==
    {[kind |-> "raise"], [kind |-> "no_parsed"]}
        \cup {[kind |-> "report", report |-> r] : r \in AuditReports}

AuditorChatObjects ==
    AuditReports
        \cup {[risk_score |-> n] : n \in MinRiskScore..MaxRiskScore}
        \cup {[is_safe |-> TRUE], Empty}

AuditorChatOutcomes ==
    {[kind |-> "raise"], [kind |-> "null"],
     [kind |-> "text", content |-> <<Lit("The program looks fine.")>>]}
        \cup {[kind |-> "text", content |-> <<Obj(o)>>] : o \in AuditorChatObjects}

RiskThresholds == {DefaultRiskThreshold, MainRiskThreshold}

\* every way _audit_program can end, by threshold and by whether the
\* auditor client has responses.parse
AuditOutcomes ==
    [threshold \in RiskThresholds, has_parse \in BOOLEAN |->
        {AuditProgram(threshold, has_parse, structured, chat) :
            structured \in AuditorStructuredOutcomes,
            chat \in AuditorChatOutcomes}]

VerifierOutcomes ==
    {[kind |-> "result", answer |-> TRUE], [kind |-> "result", answer |-> FALSE],
     [kind |-> "raise"]}

\* ---- query, step by step ----

InitAudit ==
    /\ SchemaIdle
    /\ GenIdle
    /\ LoopIdle
    /\ client \in [responses_parse : BOOLEAN]
    /\ apc = "start"
    /\ risk_threshold \in RiskThresholds
    /\ aquestion \in {"Is it better to live in the city or the country?"}
    /\ program = NoProgram
    /\ generations = 0
    /\ audits = 0
    /\ last_audit = NoAudit
    /\ verified = <<>>
    /\ aresult = NotReturned

\* query up to the first generate call
QueryGenerate ==
    /\ apc = "start"
    /\ gpc = "idle"
    /\ StartGenerate(aquestion)
    /\ generations' = generations + 1
    /\ apc' = "gen1"
    /\ UNCHANGED <<client, schemaVars, loopVars, risk_threshold, aquestion, program,
                   audits, last_audit, verified, aresult>>

ProgrammerStructured ==
    /\ apc \in {"gen1", "gen2"}
    /\ StructuredStep(ProgrammerStructuredOutcomes)

ProgrammerChat ==
    /\ apc \in {"gen1", "gen2"}
    /\ ChatStep(ProgrammerChatOutcomes)

\* the check of gen_result after either generation call
QueryCheckGeneration ==
    /\ apc \in {"gen1", "gen2"}
    /\ gpc \in {"returned", "raised"}
    /\ IF gpc = "raised"
       THEN /\ apc' = "done"
            /\ aresult' = Raised
            /\ UNCHANGED program
       ELSE IF ~gresult.success \/ gresult.json_program = None
            THEN /\ apc' = "done"
                 /\ aresult' = ReturnedNone
                 /\ UNCHANGED program
            ELSE /\ program' = gresult.json_program[1]
                 /\ apc' = IF apc = "gen1" THEN "audit1" ELSE "audit2"
                 /\ UNCHANGED aresult
    /\ UNCHANGED <<genVars, schemaVars, loopVars, risk_threshold, aquestion,
                   generations, audits, last_audit, verified>>

\* _audit_program(program, question) and the branch on is_safe; after an
\* unsafe first audit, the generate_with_feedback call is started
QueryAudit ==
    /\ apc \in {"audit1", "audit2"}
    /\ \E audit \in AuditOutcomes[risk_threshold, client.responses_parse] :
         LET attempt == IF apc = "audit1" THEN 1 ELSE 2
         IN /\ audits' = audits + 1
            /\ last_audit' = [program |-> program, outcome |-> audit]
            /\ IF audit.kind = "raise"
               THEN /\ apc' = "done"
                    /\ aresult' = Raised
                    /\ UNCHANGED <<gpc, gcall, requests, replies, gresult, generations>>
               ELSE /\ apc' = AfterAudit(attempt, audit.is_safe)
                    /\ aresult' = IF apc' = "done" THEN ReturnedNone ELSE aresult
                    /\ IF apc' = "gen2"
                       THEN /\ StartFeedback(aquestion,
                                             AuditErrorTrace(audit.justification),
                                             gresult.raw_response)
                            /\ generations' = generations + 1
                       ELSE UNCHANGED <<gpc, gcall, requests, replies, gresult,
                                        generations>>
    /\ UNCHANGED <<client, schemaVars, loopVars, risk_threshold, aquestion, program, verified>>

\* the temporary file is written with `program`, verified and removed
QueryVerify ==
    /\ apc = "verify"
    /\ verified' = Append(verified, program)
    /\ \E out \in VerifierOutcomes :
         aresult' = IF out.kind = "raise" THEN Raised ELSE out
    /\ apc' = "done"
    /\ UNCHANGED <<genVars, schemaVars, loopVars, risk_threshold, aquestion, program,
                   generations, audits, last_audit>>

NextAudit ==
    \/ QueryGenerate
    \/ ProgrammerStructured
    \/ ProgrammerChat
    \/ QueryCheckGeneration
    \/ QueryAudit
    \/ QueryVerify

SpecAudit == InitAudit /\ [][NextAudit]_vars

-----------------------------------------------------------------------------
(* Claims about the audited workflow, checked under SpecAudit *)

GenerationFailed == gpc = "raised" \/ (gpc = "returned" /\ ~gresult.success)

LastAuditUnsafe ==
    /\ audits > 0
    /\ last_audit.outcome.kind = "verdict"
    /\ ~last_audit.outcome.is_safe

WellFormed(report) ==
    /\ DOMAIN report = {"risk_score", "is_safe", "justification"}
    /\ report.risk_score \in MinRiskScore..MaxRiskScore
    /\ report.is_safe = ~(report.risk_score > risk_threshold)

\* C7: for a well-formed audit report, _audit_program judges the program
\* unsafe exactly when risk_score is above risk_threshold, on the structured
\* path and on the fallback path alike.
C7_UnsafeIffAboveThreshold ==
    audits > 0 =>
        LET o == last_audit.outcome
        IN (o.kind = "verdict" /\ WellFormed(o.report)) =>
               (~o.is_safe <=> o.report.risk_score > risk_threshold)


\* query is straight-line code: as long as a step of it remains, and every
\* LLM and verifier call returns or raises, the step is taken
SpecAuditFair == SpecAudit /\ WF_vars(NextAudit)

\* the counts of a query, and what a second unsafe audit leaves behind
BoundedCorrection ==
    /\ generations <= 2
    /\ audits <= 2
    /\ audits <= generations
    /\ (generations = 2) <=> (gcall # NoCall /\ gcall.fn = "generate_with_feedback")
    /\ (audits = 2 /\ LastAuditUnsafe) =>
           /\ apc = "done"
           /\ aresult = ReturnedNone
           /\ verified = <<>>
    /\ apc = "done" => ~ENABLED NextAudit

\* the only way a generate_with_feedback call starts: after the first audit
\* and only audit so far judged the first program unsafe, with the auditor's
\* justification in its error_trace and the first raw response as
\* previous_response
CorrectionStep ==
    (gcall' # gcall /\ gcall'.fn = "generate_with_feedback") =>
        /\ generations = 1
        /\ gcall.fn = "generate"
        /\ gpc = "returned"
        /\ audits' = 1
        /\ last_audit'.outcome.kind = "verdict"
        /\ ~last_audit'.outcome.is_safe
        /\ last_audit'.program = gresult.json_program[1]
        /\ Contains(gcall'.error_trace, last_audit'.outcome.justification)
        /\ gcall'.previous_response = gresult.raw_response

\* C12: every run of query ends, after at most two generation calls and at
\* most two audits; the one generate_with_feedback call carries the auditor's
\* justification and the first raw response and happens only after an unsafe
\* first audit; a second unsafe audit ends the run with None and no retry.
C12_BoundedSelfCorrection ==
    /\ []BoundedCorrection
    /\ [][CorrectionStep]_vars
    /\ <>(apc = "done")

C12_Witness ==
    /\ apc = "done"
    /\ generations = 2
    /\ audits = 2
    /\ LastAuditUnsafe
    /\ aresult = ReturnedNone

-----------------------------------------------------------------------------
(* ProofOfThought: the Generation Loop and the Cache.  The class is built  *)
(* in bench_strategyqa.py with max_attempts=3 and a cache_dir; its own     *)
(* code is not among the sources, so the loop and the cache follow the     *)
(* design's sections 4.4, 4.5 and 7.  The generator it calls and the       *)
(* schema it validates against are the ones modelled above.                *)

\* the (record identifier, backend) pairs the loop is called with
Records == {<<"qid-1", "smt2">>, <<"qid-1", "json">>, <<"qid-2", "smt2">>}

QuestionOf(id) == id

\* 4.5: the key is derived from (question identity, backend configuration)
CacheKey(id, backend) == <<id, backend>>

\* a lookup that never finds anything
CacheMissAlways(store, key) == None

\* 4.5: lookup before entering the loop
CacheLookup(store, key) == IF key \in DOMAIN store THEN Some(store[key]) ELSE None

\* 4.5: write-once per key after a VERIFIED outcome
CacheStore(store, key, result) ==
    IF key \in DOMAIN store THEN store ELSE store @@ (key :> result)

\* retries one attempt too many
MayRetryOffByOne(calls, ceiling) == calls <= ceiling

\* 4.4: a retry counts against the fixed attempt ceiling
MayRetry(calls, ceiling) == calls < ceiling

\* ---- what the generator's LLM, the compiler and the solver may do ----

LoopGood == [knowledge_base |-> <<Str("x = 4")>>,
             verifications |-> <<[name |-> "v", constraint |-> "x = 4"]>>]
LoopBad == [knowledge_base |-> <<Str("x = 4")>>, goal |-> "x = 4"]

LoopStructuredOutcomes == {[kind |-> "raise"], ResponsesParse(LoopGood)}

LoopChatOutcomes ==
    {[kind |-> "raise", exc |-> <<Lit("RateLimitError")>>],
     [kind |-> "text", content |-> <<FenceOpen, Obj(LoopGood), FenceClose>>],
     [kind |-> "text", content |-> <<FenceOpen, Obj(LoopBad), FenceClose>>]}

CompilerOutcomes == {"ok", "CompileError"}

ExecutorOutcomes ==
    {[kind |-> "answer", answer |-> TRUE], [kind |-> "answer", answer |-> FALSE],
     [kind |-> "crash"]}

\* ---- the loop ----

InitLoop ==
    /\ SchemaIdle
    /\ GenIdle
    /\ AuditIdle
    /\ client \in [responses_parse : BOOLEAN]
    /\ lstate = "IDLE"
    /\ max_attempts \in 1..MaxCeiling
    /\ lkey = NoKey
    /\ awaiting = FALSE
    /\ gen_calls = 0
    /\ solver_calls = 0
    /\ last_error = NoText
    /\ last_raw = NoText
    /\ accepted = NoProgram
    /\ cache = Empty
    /\ lresult = NotReturned
    /\ queries = 0
    /\ first_verified = Empty
    /\ prior = None

Terminal == lstate \in {"VERIFIED", "FAILED"}

\* 4.4 / 7: a failure at a retry point either calls the generator again with
\* the error text and the prior raw response, or, the ceiling reached, ends
\* the loop in FAILED carrying the last error and the last raw response
RetryOrFail(error, raw_text) ==
    /\ last_error' = error
    /\ last_raw' = raw_text
    /\ IF MayRetry(gen_calls, max_attempts)
       THEN /\ StartFeedback(QuestionOf(lkey[1]), error, raw_text)
            /\ gen_calls' = gen_calls + 1
            /\ awaiting' = TRUE
            /\ UNCHANGED <<lstate, lresult>>
       ELSE /\ lstate' = "FAILED"
            /\ lresult' = [kind |-> "failed", error |-> error, raw_response |-> raw_text]
            /\ awaiting' = FALSE
            /\ GeneratorAtRest
            /\ UNCHANGED gen_calls

\* a call of the loop for record id under backend: served from the cache, or
\* entering INIT with the first generator call
LoopQuery ==
    /\ lstate \in {"IDLE", "VERIFIED", "FAILED"}
    /\ queries < MaxQueries
    /\ queries' = queries + 1
    /\ \E rec \in Records :
         LET id == rec[1]
             key == CacheKey(id, rec[2])
             hit == CacheLookup(cache, key)
         IN /\ lkey' = key
            /\ prior' = IF key \in DOMAIN first_verified
                        THEN Some(first_verified[key]) ELSE None
            /\ gen_calls' = IF hit # None THEN 0 ELSE 1
            /\ solver_calls' = 0
            /\ IF hit # None
               THEN /\ lstate' = "VERIFIED"
                    /\ lresult' = hit[1]
                    /\ awaiting' = FALSE
                    /\ GeneratorAtRest
               ELSE /\ lstate' = "INIT"
                    /\ lresult' = NotReturned
                    /\ awaiting' = TRUE
                    /\ StartGenerate(QuestionOf(id))
    /\ last_error' = NoText
    /\ last_raw' = NoText
    /\ accepted' = NoProgram
    /\ UNCHANGED <<client, schemaVars, auditVars, max_attempts, cache, first_verified>>

LoopStructured ==
    /\ awaiting
    /\ StructuredStep(LoopStructuredOutcomes)

LoopChat ==
    /\ awaiting
    /\ ChatStep(LoopChatOutcomes)

\* the generator call returned: GENERATED, or a generator error
LoopReceive ==
    /\ awaiting
    /\ gpc \in {"returned", "raised"}
    /\ IF gpc = "returned" /\ gresult.success
       THEN /\ lstate' = "GENERATED"
            /\ accepted' = gresult.json_program[1]
            /\ last_raw' = gresult.raw_response
            /\ awaiting' = FALSE
            /\ UNCHANGED <<gen_calls, last_error, lresult, genVars>>
       ELSE /\ IF gpc = "raised"
               THEN RetryOrFail(<<Lit("TypeError")>>, NoText)
               ELSE RetryOrFail(gresult.error[1], gresult.raw_response)
            /\ UNCHANGED <<client, accepted>>
    /\ UNCHANGED <<schemaVars, auditVars, max_attempts, lkey, solver_calls,
                   cache, queries, first_verified, prior>>

\* GENERATED -> Validator + Compiler -> COMPILED, or the feedback retry
LoopCompile ==
    /\ lstate = "GENERATED"
    /\ ~awaiting
    /\ IF ~ValidProgram(accepted)
       THEN /\ RetryOrFail(<<Lit("ValidationError")>>, last_raw)
            /\ UNCHANGED client
       ELSE \E out \in CompilerOutcomes :
              IF out = "ok"
              THEN /\ lstate' = "COMPILED"
                   /\ UNCHANGED <<awaiting, gen_calls, last_error, last_raw,
                                  lresult, genVars>>
              ELSE /\ RetryOrFail(<<Lit(out)>>, last_raw)
                   /\ UNCHANGED client
    /\ UNCHANGED <<schemaVars, auditVars, max_attempts, lkey, solver_calls,
                   accepted, cache, queries, first_verified, prior>>

\* COMPILED -> Action Executor -> VERIFIED (and the cache write), or a
\* solver-level crash taking the feedback retry
LoopExecute ==
    /\ lstate = "COMPILED"
    /\ ~awaiting
    /\ solver_calls' = solver_calls + 1
    /\ \E out \in ExecutorOutcomes :
         IF out.kind = "answer"
         THEN LET result == [kind |-> "verified", answer |-> out.answer,
                             program |-> accepted]
              IN /\ lstate' = "VERIFIED"
                 /\ lresult' = result
                 /\ cache' = CacheStore(cache, lkey, result)
                 /\ first_verified' = IF lkey \in DOMAIN first_verified
                                      THEN first_verified
                                      ELSE first_verified @@ (lkey :> result)
                 /\ GeneratorAtRest
                 /\ UNCHANGED <<awaiting, gen_calls, last_error, last_raw>>
         ELSE /\ RetryOrFail(<<Lit("SolverError")>>, last_raw)
              /\ UNCHANGED <<cache, first_verified>>
    /\ UNCHANGED <<client, schemaVars, auditVars, max_attempts, lkey, accepted,
                   queries, prior>>

NextLoop ==
    \/ LoopQuery
    \/ LoopStructured
    \/ LoopChat
    \/ LoopReceive
    \/ LoopCompile
    \/ LoopExecute

SpecLoop == InitLoop /\ [][NextLoop]_vars

-----------------------------------------------------------------------------
(* Claims about the Generation Loop and the Cache, checked under SpecLoop *)

\* C4: for any attempt ceiling N >= 1 the loop never issues more than N
\* generation calls for one question, and a loop that ends in FAILED, every
\* generated program having been rejected, has issued exactly N of them;
\* a running loop is never stuck short of VERIFIED or FAILED.
C4_RetryBound ==
    /\ gen_calls <= max_attempts
    /\ lstate = "FAILED" => gen_calls = max_attempts /\ ~awaiting
    /\ lstate \in {"INIT", "GENERATED", "COMPILED"} =>
           ENABLED (LoopStructured \/ LoopChat \/ LoopReceive \/ LoopCompile \/ LoopExecute)

C4_Witness ==
    /\ lstate = "FAILED"
    /\ max_attempts = BenchMaxAttempts
    /\ gen_calls = 3
    /\ solver_calls = 0
    /\ lresult.kind = "failed"
    /\ lresult.error = <<Lit("ValidationError")>>

\* C9: once a record identifier has reached VERIFIED under a backend, a later
\* loop call for the same identifier and backend returns the result stored
\* then, and invokes neither the generator nor the solver.
C9_CacheIdempotence ==
    (lstate # "IDLE" /\ prior # None) =>
        /\ lstate = "VERIFIED"
        /\ lresult = prior[1]
        /\ gen_calls = 0
        /\ solver_calls = 0
        /\ ~awaiting

C9_Witness ==
    /\ prior # None
    /\ lstate = "VERIFIED"
    /\ queries = 2
    /\ lresult = cache[lkey]
    /\ ~lresult.answer

-----------------------------------------------------------------------------
(* The generator driven directly: any question, any feedback arguments *)

Questions == {"Is a whale a fish?", "Can a penguin fly?"}

ErrorTraces == {<<Lit("ValidationError: actions")>>, <<Lit("z3 crashed"), Lit("line 3")>>}

PreviousResponses ==
    {<<>>, <<Obj([actions |-> <<"simplify">>])>>,
     <<Lit("Here is the program:"), FenceOpen, Broken, FenceClose>>}

InitGen ==
    /\ SchemaIdle
    /\ AuditIdle
    /\ LoopIdle
    /\ client \in [responses_parse : BOOLEAN]
    /\ GenIdle

CallStructuredApi == StructuredStep(StructuredOutcomes)

CallChatCompletion == ChatStep(ChatOutcomes)

Generate ==
    /\ gpc = "idle"
    /\ \E q \in Questions : StartGenerate(q)
    /\ UNCHANGED <<client, callerVars>>

GenerateWithFeedback ==
    /\ gpc = "idle"
    /\ \E q \in Questions, e \in ErrorTraces, p \in PreviousResponses :
           StartFeedback(q, e, p)
    /\ UNCHANGED <<client, callerVars>>

NextGen == Generate \/ GenerateWithFeedback \/ CallStructuredApi \/ CallChatCompletion

SpecGen == InitGen /\ [][NextGen]_vars

-----------------------------------------------------------------------------
(* Claims about the generator, checked under SpecGen *)

Returned == gpc = "returned"

KeysWithin(allowed, o) == DOMAIN o \subseteq allowed

ListWithin(o, k, allowed) ==
    Present(o, k) => \A i \in 1..Len(o[k]) : KeysWithin(allowed, o[k][i])

BodyWithin(o) ==
    /\ ListWithin(o, "forall", QuantifiedKeys)
    /\ ListWithin(o, "exists", QuantifiedKeys)
    /\ Present(o, "implies") => KeysWithin(ImplicationKeys, o.implies)

\* no key of document d, at any nesting level, lies outside the schema
NoUnknownKey(d) ==
    /\ KeysWithin(ProgramKeys, d)
    /\ ListWithin(d, "sorts", SortKeys)
    /\ ListWithin(d, "functions", FunctionKeys)
    /\ Present(d, "constants") =>
           \A n \in DOMAIN d.constants : KeysWithin(ConstantKeys, d.constants[n])
    /\ ListWithin(d, "variables", VariableKeys)
    /\ ListWithin(d, "knowledge_base", KnowledgeKeys \cup {"str"})
    /\ ListWithin(d, "rules", RuleKeys)
    /\ AllOf(d, "rules", BodyWithin)
    /\ ListWithin(d, "verifications", VerificationKeys)
    /\ AllOf(d, "verifications", BodyWithin)
    /\ Present(d, "optimization") =>
           /\ KeysWithin(OptimizationKeys, d.optimization)
           /\ ListWithin(d.optimization, "variables", VariableKeys)
           /\ ListWithin(d.optimization, "objectives", ObjectiveKeys)

\* C1: whenever generate or generate_with_feedback returns success=true, the
\* json_program holds no key outside the closed schema, at any nesting level,
\* on the structured path and on the chat-completions fallback alike.
C1_SuccessIsClosedSchema ==
    (Returned /\ gresult.success) => NoUnknownKey(gresult.json_program[1])

\* the same, for the results the structured-output path returns
C1_StructuredIsClosedSchema ==
    (Returned /\ gresult.success /\ Len(requests) = 1
        /\ requests[1].api = "responses.parse")
        => NoUnknownKey(gresult.json_program[1])

\* C5: every request of a generate_with_feedback call, structured or chat,
\* carries exactly the history system prompt, user prompt built from the
\* question, assistant turn equal to the previous raw response, user turn
\* containing the error text.
C5_FeedbackHistory ==
    (gpc # "idle" /\ gcall.fn = "generate_with_feedback") =>
        \A i \in 1..Len(requests) :
            LET m == requests[i].messages
            IN /\ Len(m) = 4
               /\ m[1] = [role |-> "system", content |-> STRUCTURED_SYSTEM_PROMPT]
               /\ m[2] = [role |-> "user", content |-> BuildPrompt(gcall.question)]
               /\ m[3] = [role |-> "assistant", content |-> gcall.previous_response]
               /\ m[4].role = "user"
               /\ Contains(m[4].content, gcall.error_trace)

C5_Witness ==
    /\ gpc = "returned"
    /\ gcall.fn = "generate_with_feedback"
    /\ Len(requests) = 2
    /\ requests[1].api = "responses.parse"
    /\ requests[2].api = "chat.completions.create"
    /\ gcall.previous_response # <<>>
    /\ Len(gcall.error_trace) = 2

ApiCount(api) == Cardinality({i \in 1..Len(requests) : requests[i].api = api})

StructuredFellThrough ==
    /\ replies # <<>>
    /\ replies[1].api = "responses.parse"
    /\ replies[1].kind \in {"raise", "no_parsed"}

StructuredParsed ==
    /\ replies # <<>>
    /\ replies[1].api = "responses.parse"
    /\ replies[1].kind = "parsed"

\* C11: within one generate or generate_with_feedback call the structured API
\* is tried first and at most once; chat completions is called at most once
\* and only when the structured API is absent, raised or returned no parsed
\* output; a parsed program is returned as success without any chat call; no
\* call makes more than two LLM requests.
C11_StructuredPreferred ==
    /\ Len(requests) <= 2
    /\ ApiCount("responses.parse") <= 1
    /\ ApiCount("chat.completions.create") <= 1
    /\ \A i \in 1..Len(requests) :
           /\ requests[i].api = "responses.parse" => i = 1
           /\ requests[i].api = "chat.completions.create" =>
                  \/ i = 1 /\ ~client.responses_parse
                  \/ i = 2 /\ StructuredFellThrough
    /\ (client.responses_parse /\ gpc \in {"chat", "returned", "raised"}) =>
           ApiCount("responses.parse") = 1
    /\ ~client.responses_parse => ApiCount("responses.parse") = 0
    /\ StructuredParsed =>
           /\ ApiCount("chat.completions.create") = 0
           /\ Returned
           /\ gresult.success

C11_Witness ==
    /\ Returned
    /\ gresult.success
    /\ Len(requests) = 2
    /\ replies[1] = [api |-> "responses.parse", kind |-> "no_parsed"]
    /\ replies[2].kind = "text"

\* C13: every GenerationResult returned by generate or generate_with_feedback
\* has success=true iff json_program is a non-empty mapping iff error is None;
\* a failure has json_program=None and an error message, and its raw_response
\* is the chat content whenever one was received.
C13_ResultShape ==
    Returned =>
        /\ gresult.success <=>
               (gresult.json_program # None /\ gresult.json_program[1] # Empty)
        /\ gresult.success <=> gresult.error = None
        /\ ~gresult.success =>
               /\ gresult.json_program = None
               /\ gresult.error # None
               /\ LET last == replies[Len(replies)]
                  IN IF last.kind = "text"
                     THEN gresult.raw_response = last.content
                     ELSE gresult.raw_response = <<>>

C13_Witness ==
    /\ Returned
    /\ ~gresult.success
    /\ replies[Len(replies)].kind = "text"
    /\ gresult.raw_response = <<FenceOpen, Broken, FenceClose, Obj(Empty)>>

\* C14: whatever the LLM client does (structured call raising, chat call
\* raising, chat content empty, None or not JSON), generate and
\* generate_with_feedback return a GenerationResult and let no exception
\* reach the caller.
C14_NoExceptionPropagates ==
    /\ gpc # "raised"
    /\ (replies # <<>> /\ replies[Len(replies)].api = "chat.completions.create") =>
           Returned

-----------------------------------------------------------------------------
(* The schema validator driven directly: any document of at most MaxKeys  *)
(* keys                                                                    *)

InitValidator ==
    /\ InitSchema
    /\ AuditIdle
    /\ LoopIdle
    /\ client = [responses_parse |-> TRUE]
    /\ GenIdle

SpecSchema == InitValidator /\ [][NextSchema]_vars

-----------------------------------------------------------------------------
(* Claims about the schema validator, checked under SpecSchema *)

Accepted == spc \in {"validated", "emitted"}

\* C2: to_dsl_dict always emits a non-empty `actions` list: exactly
\* ["verify_conditions"] when the program's actions are missing or empty,
\* otherwise the program's actions, same elements in the same order.
C2_ActionsDefault ==
    spc = "emitted" =>
        /\ dsl.actions # <<>>
        /\ IF ~Present(raw, "actions") \/ raw.actions = <<>>
           THEN model.actions = <<>> /\ dsl.actions = <<"verify_conditions">>
           ELSE model.actions = raw.actions /\ dsl.actions = raw.actions

C2_Witness ==
    /\ spc = "emitted"
    /\ ~Present(raw, "actions")
    /\ Present(raw, "rules")
    /\ dsl.actions = <<"verify_conditions">>

\* C3: every program the validator accepts and to_dsl_dict emits has an
\* `actions` list within {"verify_conditions", "optimize"}; a document naming
\* any other action is rejected.
C3_ActionsKnown ==
    /\ Accepted =>
           \A i \in 1..Len(model.actions) :
               model.actions[i] \in {"verify_conditions", "optimize"}
    /\ spc = "emitted" =>
           \A i \in 1..Len(dsl.actions) :
               dsl.actions[i] \in {"verify_conditions", "optimize"}

OneBody(m) == (m.implies # None) # (m.constraint # None)

\* C8: every accepted rule and verification has exactly one body, an
\* implication or a raw constraint, never both and never neither; a
\* verification carries at most one of the prefixes exists and forall.
C8_ExactlyOneBody ==
    Accepted =>
        /\ \A i \in 1..Len(model.rules) : OneBody(model.rules[i])
        /\ \A i \in 1..Len(model.verifications) :
               /\ OneBody(model.verifications[i])
               /\ ~(model.verifications[i].exists # None
                      /\ model.verifications[i].forall # None)

DistinctNames(decls) ==
    \A i, j \in 1..Len(decls) : decls[i].name = decls[j].name => i = j

\* the names a program declares, each once
DeclaredOnce(p) ==
    /\ DistinctNames(p.sorts)
    /\ DistinctNames(p.functions)
    /\ DistinctNames(p.variables)

\* C10 (validator half): no program that declares the same sort, function
\* or variable name twice is accepted as a normalized program.
C10_NoDuplicateAccepted == Accepted => DeclaredOnce(model)

====
